---- MODULE Spec2Model ----
(***************************************************************************)
(* Model of QuantLib::Math::LexicographicalView                            *)
(* (ql/Math/lexicographicalview.hpp): a non-owning two-dimensional view of *)
(* a contiguous sequence.  Positions of the underlying random-access       *)
(* iterator are modelled as integers (offsets into the storage `mem`).     *)
(* A cursor is a record [pos, step, rev]:                                  *)
(*   pos   the wrapped underlying position,                                *)
(*   step  elements per increment (1 for the plain x_iterator, the stride  *)
(*         dn_ for the stepping y_iterator),                               *)
(*   rev   TRUE for a reverse_iterator wrapped around the cursor.          *)
(* The view computes positions by offset arithmetic only and forms         *)
(* positions after end_ (yend(i) is end_ + i).  The range [begin_, end_)   *)
(* lies inside a storage of AllocSize elements that extends at least MaxX  *)
(* elements past end_, so every position the view forms is a position of   *)
(* that storage and is kept as computed; a range that fills its storage    *)
(* to the last element, where end_ + i is no valid position, is not        *)
(* covered.  Only positions dereferenced by a loop touch `mem`.            *)
(* The arithmetic is done in mathematical integers: with the bounds below  *)
(* no product or sum comes near the width of a C++ int.                    *)
(***************************************************************************)
EXTENDS Integers, Sequences, FiniteSets, TLC

\* ---- bounds of the model ----------------------------------------------
MaxStart == 1
MaxLen == 12
MaxX == 5
MaxWriteLen == 6

\* the values an element takes: two are enough to tell a write from its absence
\* and one write from another
Values == {0, 1}

AllocSize == MaxStart + MaxLen + MaxX
MaxVisit == MaxLen + MaxX

VARIABLES
    debug,      \* the build defines QL_DEBUG
    status,     \* "unattached" | "attached" | "failed"
    raised,     \* message of the error thrown by the constructor, or "none"
    args,       \* the arguments the constructor was called with
    begin_, end_, xSize_, ySize_,   \* the private members of the view
    mem,        \* the caller-owned storage the range lives in
    cellVal,    \* history: value most recently written to logical cell <<i, j>>
    pc,         \* caller's loop: "idle" | "loop" | "done"
    fam,        \* cursor family of the loop: "x" "rx" "y" "ry" "at"
    idx,        \* the row (x, rx) or column (y, ry, at) index passed in
    it, lim,    \* the loop's cursor and its end bound
    visited     \* positions dereferenced by the loop so far, in order

vars == <<debug, status, raised, args, begin_, end_, xSize_, ySize_,
          mem, cellVal, pc, fam, idx, it, lim, visited>>

viewVars == <<debug, status, raised, args, begin_, end_, xSize_, ySize_>>
loopVars == <<pc, fam, idx, it, lim, visited>>

\* ---- C++ integer division and remainder (truncation toward zero) -------
CDiv(a, b) ==
    LET q == (IF a < 0 THEN -a ELSE a) \div (IF b < 0 THEN -b ELSE b)
    IN  IF (a < 0) = (b < 0) THEN q ELSE -q

CMod(a, b) == a - b * CDiv(a, b)

\* ---- cursors ------------------------------------------------------------
\* x_iterator: the underlying random-access iterator itself
x_iterator(p) == [pos |-> p, step |-> 1, rev |-> FALSE]

\* y_iterator: stepping_iterator(it, step)
y_iterator(p, dn) == [pos |-> p, step |-> dn, rev |-> FALSE]

\* reverse_iterator(c): wraps the forward cursor c
reverse_iterator(c) == [c EXCEPT !.rev = TRUE]

\* c + n for a forward cursor: n steps of c.step underlying elements
Plus(c, n) == [c EXCEPT !.pos = @ + n * c.step]

\* ++c : a reverse cursor moves its base backwards
Inc(c) == [c EXCEPT !.pos = IF c.rev THEN @ - c.step ELSE @ + c.step]

\* position of the element *c : a reverse cursor dereferences one step
\* before its base
Deref(c) == IF c.rev THEN c.pos - c.step ELSE c.pos

\* b - a in steps of the cursors
Distance(a, b) == CDiv(b.pos - a.pos, a.step)

\* ---- the view -----------------------------------------------------------
ErrNotDivisor ==
    "The x size of the view is not an exact divisorof the size of the underlying sequence"

\* mutant: the length is taken from the origin of the storage, not from begin
LexicographicalView_noBegin(b, e, x) ==
    [begin_ |-> b, end_ |-> e, xSize_ |-> x, ySize_ |-> CDiv(e, x)]

\* mutant: the number of rows is rounded up
LexicographicalView_roundUp(b, e, x) ==
    [begin_ |-> b, end_ |-> e, xSize_ |-> x, ySize_ |-> CDiv(e - b + x - 1, x)]

\* member initialisers of the constructor
LexicographicalView(b, e, x) ==
    [begin_ |-> b, end_ |-> e, xSize_ |-> x, ySize_ |-> CDiv(e - b, x)]

\* mutant: the check is compiled in every build
ConstructorThrows_always(dbg, v) ==
    ~(CMod(v.end_ - v.begin_, v.xSize_) = 0)

\* the QL_REQUIRE of the constructor, compiled under QL_DEBUG only
ConstructorThrows(dbg, v) ==
    dbg /\ ~(CMod(v.end_ - v.begin_, v.xSize_) = 0)

\* mutant: rows are laid ySize_ apart
xbegin_yStride(j) == x_iterator(begin_ + j * ySize_)

xbegin(j) == x_iterator(begin_ + j * xSize_)

\* mutant: the end of a row is its last element
xend_inclusive(j) == x_iterator(begin_ + (j + 1) * xSize_ - 1)

xend(j) == x_iterator(begin_ + (j + 1) * xSize_)
rxbegin(j) == reverse_iterator(xend(j))

\* mutant: the reverse end wraps the end of the row, not its beginning
rxend_fromEnd(j) == reverse_iterator(xend(j))

rxend(j) == reverse_iterator(xbegin(j))

\* mutant: a column steps by ySize_
ybegin_yStride(i) == y_iterator(begin_ + i, ySize_)

ybegin(i) == y_iterator(begin_ + i, xSize_)

\* mutant: the end of a column is xSize_ steps after its beginning
yend_xSteps(i) == Plus(y_iterator(begin_ + i, xSize_), xSize_)

yend(i) == Plus(y_iterator(begin_ + i, xSize_), ySize_)

\* mutant: the reverse beginning wraps the end of the sequence
rybegin_atEnd(i) == reverse_iterator(y_iterator(end_, xSize_))

rybegin(i) == reverse_iterator(yend(i))
ryend(i) == reverse_iterator(ybegin(i))

\* mutant: the index selects a row
Index_row(i) == y_iterator(begin_ + i * xSize_, xSize_)

Index(i) == y_iterator(begin_ + i, xSize_)
xSize == xSize_
ySize == ySize_

\* ---- actions --------------------------------------------------------------
Init ==
    /\ debug \in BOOLEAN
    /\ status = "unattached"
    /\ raised = "none"
    /\ args = [begin |-> 0, end |-> 0, xSize |-> 0]
    /\ begin_ = 0 /\ end_ = 0 /\ xSize_ = 0 /\ ySize_ = 0
    /\ mem = [a \in 0 .. AllocSize - 1 |-> 0]
    /\ cellVal = << >>
    /\ pc = "idle" /\ fam = "none" /\ idx = 0
    /\ it = [pos |-> 0, step |-> 0, rev |-> FALSE] /\ lim = it
    /\ visited = << >>

\* LexicographicalView(begin, end, xSize)
Attach ==
    \E b \in 0 .. MaxStart, n \in 0 .. MaxLen, x \in 1 .. MaxX :
      LET v == LexicographicalView(b, b + n, x) IN
        /\ status = "unattached"
        /\ args' = [begin |-> b, end |-> b + n, xSize |-> x]
        /\ IF ConstructorThrows(debug, v)
           THEN /\ status' = "failed"
                /\ raised' = ErrNotDivisor
                /\ UNCHANGED <<begin_, end_, xSize_, ySize_, cellVal>>
           ELSE /\ status' = "attached"
                /\ raised' = "none"
                /\ begin_' = v.begin_ /\ end_' = v.end_
                /\ xSize_' = v.xSize_ /\ ySize_' = v.ySize_
                /\ cellVal' = [c \in (0 .. v.xSize_ - 1) \X (0 .. v.ySize_ - 1)
                                 |-> 0]
        /\ UNCHANGED <<debug, mem>>
        /\ UNCHANGED loopVars

StartLoop(f, n, b, e) ==
    /\ status = "attached"
    /\ pc = "idle"
    /\ pc' = "loop" /\ fam' = f /\ idx' = n
    /\ it' = b /\ lim' = e
    /\ visited' = << >>
    /\ UNCHANGED <<mem, cellVal>>
    /\ UNCHANGED viewVars

\* for (it = v.xbegin(j); it != v.xend(j); ++it)
RowLoop == \E j \in 0 .. ySize - 1 : StartLoop("x", j, xbegin(j), xend(j))

\* for (it = v.rxbegin(j); it != v.rxend(j); ++it)
RevRowLoop == \E j \in 0 .. ySize - 1 : StartLoop("rx", j, rxbegin(j), rxend(j))

\* for (it = v.ybegin(i); it != v.yend(i); ++it)
ColLoop == \E i \in 0 .. xSize - 1 : StartLoop("y", i, ybegin(i), yend(i))

\* for (it = v.rybegin(i); it != v.ryend(i); ++it)
RevColLoop == \E i \in 0 .. xSize - 1 : StartLoop("ry", i, rybegin(i), ryend(i))

\* it = v[i]; for (k = 0; k < v.ySize(); ++k, ++it)
IndexLoop == \E i \in 0 .. xSize - 1 : StartLoop("at", i, Index(i), Index(i))

\* the loop condition
More == IF fam = "at" THEN Len(visited) < ySize ELSE it # lim

\* the logical cell <<i, j>> of v_ij that a cursor of family f, obtained for
\* index n and advanced k times, stands for
Cell(f, n, k) ==
    CASE f = "x"  -> <<k, n>>
      [] f = "rx" -> <<xSize_ - 1 - k, n>>
      [] f = "ry" -> <<n, ySize_ - 1 - k>>
      [] OTHER    -> <<n, k>>

\* *it = val
Write ==
    \E val \in Values :
        /\ pc = "loop" /\ More
        /\ end_ - begin_ <= MaxWriteLen
        /\ Len(visited) < MaxVisit
        /\ mem' = IF Deref(it) \in DOMAIN mem
                  THEN [mem EXCEPT ![Deref(it)] = val] ELSE mem
        /\ cellVal' = IF Cell(fam, idx, Len(visited)) \in DOMAIN cellVal
                      THEN [cellVal EXCEPT ![Cell(fam, idx, Len(visited))] = val]
                      ELSE cellVal
        /\ UNCHANGED viewVars
        /\ UNCHANGED loopVars

\* use *it, then ++it
Step ==
    /\ pc = "loop" /\ More
    /\ Len(visited) < MaxVisit
    /\ visited' = Append(visited, Deref(it))
    /\ it' = Inc(it)
    /\ UNCHANGED <<pc, fam, idx, lim, mem, cellVal>>
    /\ UNCHANGED viewVars

\* the loop condition fails
Finish ==
    /\ pc = "loop" /\ ~More
    /\ pc' = "done"
    /\ UNCHANGED <<fam, idx, it, lim, visited, mem, cellVal>>
    /\ UNCHANGED viewVars

\* the cursors of the loop go out of scope
Leave ==
    /\ pc = "done"
    /\ pc' = "idle" /\ fam' = "none" /\ idx' = 0
    /\ it' = [pos |-> 0, step |-> 0, rev |-> FALSE] /\ lim' = it'
    /\ visited' = << >>
    /\ UNCHANGED <<mem, cellVal>>
    /\ UNCHANGED viewVars

Next ==
    \/ Attach
    \/ RowLoop
    \/ RevRowLoop
    \/ ColLoop
    \/ RevColLoop
    \/ IndexLoop
    \/ Write
    \/ Step
    \/ Finish
    \/ Leave

Spec == Init /\ [][Next]_vars

\* ---- what the claims are stated in ---------------------------------------
Attached == status = "attached"
Divides == (end_ - begin_) % xSize_ = 0
Cols == 0 .. xSize_ - 1
Rows == 0 .. ySize_ - 1
InLoop == pc \in {"loop", "done"}

\* row-major position of logical cell (column i, row j)
Linear(i, j) == begin_ + j * xSize_ + i

RowPositions(j) == [k \in 1 .. xSize_ |-> Linear(k - 1, j)]
ColPositions(i) == [k \in 1 .. ySize_ |-> Linear(i, k - 1)]
Reversed(s) == [k \in 1 .. Len(s) |-> s[Len(s) + 1 - k]]
IsPrefix(s, t) == Len(s) <= Len(t) /\ \A k \in 1 .. Len(s) : s[k] = t[k]

\* a loop of family f visits a prefix of `expected` while it runs and all of
\* it when it ends
Visits(f, expected) ==
    (InLoop /\ fam = f) =>
        /\ IsPrefix(visited, expected)
        /\ pc = "done" => Len(visited) = Len(expected)

\* the 12-element sequence [0..11] viewed with the given row length
Scenario12(x) ==
    /\ Attached /\ begin_ = 0 /\ end_ = 12 /\ xSize_ = x

\* C1: for a view whose rowLength divides the length, rowBegin(j) advanced by
\* i and columnBegin(i) advanced by j both address start + j*rowLength + i,
\* for every column i and row j of the grid; a row loop and a column loop
\* meet at the same position in the cell they share.
C1_RoundTrip ==
    (Attached /\ Divides) =>
        /\ \A i \in Cols, j \in Rows :
              /\ Deref(Plus(xbegin(j), i)) = Linear(i, j)
              /\ Deref(Plus(ybegin(i), j)) = Linear(i, j)
        /\ (pc = "loop" /\ More /\ fam = "x") =>
              Deref(it) = Deref(Plus(ybegin(Len(visited)), idx))
        /\ (pc = "loop" /\ More /\ fam = "y") =>
              Deref(it) = Deref(Plus(xbegin(Len(visited)), idx))

C1_Witness ==
    /\ Attached /\ Divides /\ begin_ = 1 /\ xSize_ = 4 /\ ySize_ = 3
    /\ pc = "loop" /\ fam = "x" /\ idx = 1 /\ Len(visited) = 2
    /\ Deref(it) = 7
    /\ Deref(Plus(ybegin(2), 1)) = 7

\* C2: a loop from reverseRowBegin(j) to reverseRowEnd(j) visits the rowLength
\* elements of row j from the last column down to column 0, and a loop from
\* reverseColumnBegin(i) to reverseColumnEnd(i) visits the columnCount
\* elements of column i from the last row down to row 0.
C2_ReverseLaws ==
    Attached =>
        /\ Visits("rx", Reversed(RowPositions(idx)))
        /\ Visits("ry", Reversed(ColPositions(idx)))

C2_Witness ==
    /\ Scenario12(4)
    /\ pc = "done" /\ fam = "ry" /\ idx = 2
    /\ visited = <<10, 6, 2>>

\* C3: every cell of the grid, read through the row cursor rowBegin(j)+i or
\* the column cursor columnBegin(i)+j or the cursor of the running loop,
\* holds the value most recently written to that cell through any cursor.
C3_Aliasing ==
    Attached =>
        /\ \A c \in DOMAIN cellVal :
              LET px == Deref(Plus(xbegin(c[2]), c[1]))
                  py == Deref(Plus(ybegin(c[1]), c[2]))
              IN  /\ px \in DOMAIN mem /\ mem[px] = cellVal[c]
                  /\ py \in DOMAIN mem /\ mem[py] = cellVal[c]
        /\ (pc = "loop" /\ More) =>
              /\ Deref(it) \in DOMAIN mem
              /\ Cell(fam, idx, Len(visited)) \in DOMAIN cellVal
              /\ mem[Deref(it)] = cellVal[Cell(fam, idx, Len(visited))]

C3_Witness ==
    /\ Attached /\ xSize_ = 3 /\ ySize_ = 2
    /\ pc = "loop" /\ fam = "ry" /\ idx = 1 /\ Len(visited) = 1
    /\ cellVal[<<1, 1>>] = 1 /\ cellVal[<<1, 0>>] = 0
    /\ cellVal[<<2, 0>>] = 1 /\ cellVal[<<0, 1>>] = 0
    /\ mem[Deref(Plus(xbegin(1), 1))] = 1
    /\ mem[Deref(Plus(ybegin(2), 0))] = 1

\* C4: construction fails exactly when the build checks (QL_DEBUG) and the
\* length is not a multiple of rowLength, and then with the constructor's
\* error; without checking it succeeds for every start, end and rowLength > 0.
C4_ConstructionFailure ==
    (status # "unattached") =>
        /\ (status = "failed") <=>
              (debug /\ (args.end - args.begin) % args.xSize # 0)
        /\ (status = "failed") <=> (raised = ErrNotDivisor)
        /\ (status = "attached") <=> (raised = "none")
        /\ ~debug => status = "attached"

C4_Witness ==
    /\ debug /\ status = "failed" /\ raised = ErrNotDivisor
    /\ args = [begin |-> 0, end |-> 12, xSize |-> 5]

\* C5: columnCount of a constructed view is the quotient of the length by
\* rowLength rounded down (exact when rowLength divides the length), and
\* rowLength() is the rowLength passed to the constructor.
C5_ColumnCount ==
    Attached =>
        LET n == args.end - args.begin IN
            /\ ySize * args.xSize <= n
            /\ n < (ySize + 1) * args.xSize
            /\ (n % args.xSize = 0) => ySize * args.xSize = n
            /\ (n = 12 /\ args.xSize = 4) => ySize = 3
            /\ (n = 12 /\ args.xSize = 5) => ySize = 2
            /\ xSize = args.xSize

C5_Witness ==
    /\ Attached /\ ~debug
    /\ args = [begin |-> 1, end |-> 13, xSize |-> 5]
    /\ ySize = 2 /\ xSize = 5

\* C6: columnEnd(i) is columnCount strided steps after columnBegin(i), and a
\* loop from columnBegin(i) to columnEnd(i) visits the positions
\* start + i + k*rowLength, k = 0 .. columnCount-1, in that order.
C6_ColumnRange ==
    Attached =>
        /\ \A i \in Cols : Distance(ybegin(i), yend(i)) = ySize_
        /\ Visits("y", ColPositions(idx))

C6_Witness ==
    /\ Scenario12(4)
    /\ pc = "done" /\ fam = "y" /\ idx = 2
    /\ visited = <<2, 6, 10>>

\* C7: rowEnd(j) is rowLength elements after rowBegin(j), and a loop from
\* rowBegin(j) to rowEnd(j) visits the positions start + j*rowLength + k,
\* k = 0 .. rowLength-1, in that order.
C7_RowRange ==
    Attached =>
        /\ \A j \in Rows : Distance(xbegin(j), xend(j)) = xSize_
        /\ Visits("x", RowPositions(idx))

C7_Witness ==
    /\ Scenario12(4)
    /\ pc = "done" /\ fam = "x" /\ idx = 1
    /\ visited = <<4, 5, 6, 7>>

\* C8: view[i] is the cursor columnBegin(i): position start + i, step
\* rowLength; dereferenced it gives row 0 of column i and each advance moves
\* it one row down the column.
C8_IndexedAccess ==
    Attached =>
        /\ \A i \in Cols :
              /\ Index(i) = ybegin(i)
              /\ Index(i).pos = begin_ + i
              /\ Index(i).step = xSize_
              /\ ~Index(i).rev
        /\ Visits("at", ColPositions(idx))
        /\ (pc = "loop" /\ More /\ fam = "at") =>
              Deref(it) = Linear(idx, Len(visited))

C8_Witness ==
    /\ Scenario12(4)
    /\ pc = "loop" /\ fam = "at" /\ idx = 2
    /\ visited = <<2>> /\ Deref(it) = 6

\* C9: without checking, in a view whose rowLength does not divide the
\* length, every access at column i < rowLength and row j < columnCount,
\* through a row cursor or a column cursor, is inside [start, end).
C9_TruncatedInRange ==
    (~debug /\ Attached /\ ~Divides) =>
        /\ \A i \in Cols, j \in Rows :
              /\ begin_ <= Deref(Plus(xbegin(j), i))
              /\ Deref(Plus(xbegin(j), i)) < end_
              /\ begin_ <= Deref(Plus(ybegin(i), j))
              /\ Deref(Plus(ybegin(i), j)) < end_
        /\ (pc = "loop" /\ More) =>
              (begin_ <= Deref(it) /\ Deref(it) < end_)
        /\ \A k \in 1 .. Len(visited) :
              (begin_ <= visited[k] /\ visited[k] < end_)

C9_Witness ==
    /\ ~debug /\ Attached /\ begin_ = 0 /\ end_ = 12 /\ xSize_ = 5
    /\ ySize_ = 2
    /\ pc = "loop" /\ fam = "y" /\ idx = 4
    /\ visited = <<4>> /\ Deref(it) = 9 /\ More

\* C10: when rowLength divides the length, the row bounds stay inside
\* [start, end], rowEnd(j) = rowBegin(j+1) and the last rowEnd is end, while
\* columnEnd(i) and the base of reverseColumnBegin(i) wrap end + i, which is
\* end only for i = 0 and beyond end for every other column.
C10_EndBounds ==
    (Attached /\ Divides) =>
        /\ \A j \in Rows :
              /\ begin_ <= xbegin(j).pos
              /\ xbegin(j).pos < xend(j).pos
              /\ xend(j).pos <= end_
              /\ xend(j) = xbegin(j + 1)
        /\ (ySize_ > 0) => xend(ySize_ - 1).pos = end_
        /\ \A i \in Cols :
              /\ yend(i).pos = begin_ + i + ySize_ * xSize_
              /\ yend(i).pos = end_ + i
              /\ (yend(i).pos = end_) <=> (i = 0)
              /\ (i >= 1) => yend(i).pos > end_
              /\ rybegin(i).pos = end_ + i
              /\ rybegin(i).rev
        /\ (InLoop /\ fam = "y") => lim.pos = end_ + idx
        /\ (InLoop /\ fam = "ry" /\ visited = << >>) => it.pos = end_ + idx

C10_Witness ==
    /\ Scenario12(4) /\ Divides
    /\ pc = "loop" /\ fam = "ry" /\ idx = 3 /\ visited = << >>
    /\ it.pos = 15 /\ it.pos > end_
    /\ Deref(it) = 11

====
